---- MODULE Spec2Model ----
(***************************************************************************)
(* Model of examples/fastapi-api/main.py: three in-memory lists            *)
(* (users_db, products_db, orders_db) and the request handlers that read   *)
(* and mutate them, plus the direct calls made by main_test.py.            *)
(* Each handler is a pure operator from the store (and its arguments) to   *)
(* the new store and the response; each action applies one handler.        *)
(***************************************************************************)
EXTENDS Integers, Sequences, FiniteSets

VARIABLES users_db, products_db, orders_db, last, assigned, had_delete, inflight

vars == <<users_db, products_db, orders_db, last, assigned, had_delete, inflight>>

dbs == <<users_db, products_db, orders_db>>

(* ------------------------------ bounds -------------------------------- *)

\* Largest number of create calls made in one run, over the three repositories.
MaxCreates == 3

\* Largest number of requests whose handlers run at the same time.
MaxInflight == 2

(* ------------------------------- data --------------------------------- *)

\* Python None in an Optional[int] id field.
None == -1

Repos == {"users", "products", "orders"}

\* Path parameters tried: the ids create can assign, and one beyond them.
Ids == 1..(MaxCreates + 1)

\* Request bodies: the id is optional and may carry any caller-chosen value.
InputIds == {None, 3}

User == [id : InputIds, name : {"Alice", "Bob"}, email : {"a@x.com", "b@x.com"}]

Product == [id : {None}, name : {"Widget"}, price : {5, 7}]

Order == [id : {None}, user_id : {1}, items : {<<>>, <<1>>}, total : {5}]

(* --------------------------- responses -------------------------------- *)

\* The body of a call that carries none (Python None).
NoBody == [id |-> None]

\* A returned list: the JSON array of its items.
ListBody(items) == [items |-> items]

\* A handler that returns: FastAPI answers 200 with the returned value.
Return(value) == [raised |-> "none", status_code |-> 200, body |-> value]

\* raise HTTPException(status_code=404, detail=...)
HTTPException(status_code, detail) ==
    [raised |-> "HTTPException", status_code |-> status_code, body |-> [detail |-> detail]]

\* Variant: the scan keeps the last element whose id is the_id.
LastMatch(db, the_id) ==
    IF \E i \in 1..Len(db) : db[i].id = the_id
    THEN CHOOSE i \in 1..Len(db) :
            /\ db[i].id = the_id
            /\ \A j \in (i + 1)..Len(db) : db[j].id # the_id
    ELSE 0

\* Position of the first element of db whose id is the_id, 0 when none:
\* the `for x in db: if x["id"] == the_id` scan of every handler.
FirstMatch(db, the_id) ==
    IF \E i \in 1..Len(db) : db[i].id = the_id
    THEN CHOOSE i \in 1..Len(db) :
            /\ db[i].id = the_id
            /\ \A j \in 1..(i - 1) : db[j].id # the_id
    ELSE 0

\* del db[i] (i is 1-based here).
DelAt(db, i) == SubSeq(db, 1, i - 1) \o SubSeq(db, i + 1, Len(db))

(* ---------------------------- handlers -------------------------------- *)
\* Every handler yields [db |-> the store afterwards, resp |-> the response].

\* Variant: a health check that reports on the users store.
health_check_degraded ==
    IF users_db = <<>>
    THEN Return([status |-> "ok"])
    ELSE Return([status |-> "degraded"])

health_check == Return([status |-> "ok"])

\* Variant: list answers the records newest first.
list_users_reversed(db) ==
    [db |-> db, resp |-> Return(ListBody([k \in 1..Len(db) |-> db[Len(db) + 1 - k]]))]

list_users(db) == [db |-> db, resp |-> Return(ListBody(db))]

\* Variant: get takes the record out of the list (users_db.pop(i)).
get_user_pop(db, user_id) ==
    LET i == FirstMatch(db, user_id)
    IN  IF i # 0
        THEN [db |-> DelAt(db, i), resp |-> Return(db[i])]
        ELSE [db |-> db, resp |-> HTTPException(404, "User not found")]

get_user(db, user_id) ==
    LET i == FirstMatch(db, user_id)
    IN  IF i # 0
        THEN [db |-> db, resp |-> Return(db[i])]
        ELSE [db |-> db, resp |-> HTTPException(404, "User not found")]

\* Variant: an id supplied by the caller is kept.
create_user_keep_id(db, user) ==
    LET user_dict == IF user.id = None THEN [user EXCEPT !.id = Len(db) + 1] ELSE user
    IN  [db |-> Append(db, user_dict), resp |-> Return(user_dict)]

\* Variant: the new id is the record count, without the + 1.
create_user_len(db, user) ==
    LET user_dict == [user EXCEPT !.id = Len(db)]
    IN  [db |-> Append(db, user_dict), resp |-> Return(user_dict)]

create_user(db, user) ==
    LET user_dict == [user EXCEPT !.id = Len(db) + 1]
    IN  [db |-> Append(db, user_dict), resp |-> Return(user_dict)]

\* Variant: the scan does not stop at the first match and replaces every
\* record that carries the id.
update_user_all(db, user_id, user) ==
    LET i == FirstMatch(db, user_id)
    IN  IF i # 0
        THEN LET new_db == [k \in 1..Len(db) |->
                               IF db[k].id = user_id
                               THEN [user EXCEPT !.id = user_id]
                               ELSE db[k]]
             IN  [db |-> new_db, resp |-> Return(new_db[i])]
        ELSE [db |-> db, resp |-> HTTPException(404, "User not found")]

\* Variant: {"id": user_id, **user.dict()}, so the body's id wins.
update_user_body_id(db, user_id, user) ==
    LET i == FirstMatch(db, user_id)
    IN  IF i # 0
        THEN LET new_db == [db EXCEPT ![i] = user]
             IN  [db |-> new_db, resp |-> Return(new_db[i])]
        ELSE [db |-> db, resp |-> HTTPException(404, "User not found")]

update_user(db, user_id, user) ==
    LET i == FirstMatch(db, user_id)
    IN  IF i # 0
        THEN LET new_db == [db EXCEPT ![i] = [user EXCEPT !.id = user_id]]
             IN  [db |-> new_db, resp |-> Return(new_db[i])]
        ELSE [db |-> db, resp |-> HTTPException(404, "User not found")]

\* Variant: the scan runs from the back, so the last match is removed.
delete_user_last(db, user_id) ==
    LET i == LastMatch(db, user_id)
    IN  IF i # 0
        THEN [db |-> DelAt(db, i), resp |-> Return([deleted |-> TRUE])]
        ELSE [db |-> db, resp |-> HTTPException(404, "User not found")]

\* Variant: the list is rebuilt without every record that carries the id.
delete_user_all(db, user_id) ==
    LET i == FirstMatch(db, user_id)
    IN  IF i # 0
        THEN [db |-> SelectSeq(db, LAMBDA u : u.id # user_id),
              resp |-> Return([deleted |-> TRUE])]
        ELSE [db |-> db, resp |-> HTTPException(404, "User not found")]

\* Variant: a delete of a missing id answers instead of raising.
delete_user_silent(db, user_id) ==
    LET i == FirstMatch(db, user_id)
    IN  IF i # 0
        THEN [db |-> DelAt(db, i), resp |-> Return([deleted |-> TRUE])]
        ELSE [db |-> db, resp |-> Return([deleted |-> FALSE])]

delete_user(db, user_id) ==
    LET i == FirstMatch(db, user_id)
    IN  IF i # 0
        THEN [db |-> DelAt(db, i), resp |-> Return([deleted |-> TRUE])]
        ELSE [db |-> db, resp |-> HTTPException(404, "User not found")]

list_products(db) == [db |-> db, resp |-> Return(ListBody(db))]

get_product(db, product_id) ==
    LET i == FirstMatch(db, product_id)
    IN  IF i # 0
        THEN [db |-> db, resp |-> Return(db[i])]
        ELSE [db |-> db, resp |-> HTTPException(404, "Product not found")]

\* Variant: the product id is the record count, without the + 1.
create_product_len(db, product) ==
    LET product_dict == [product EXCEPT !.id = Len(db)]
    IN  [db |-> Append(db, product_dict), resp |-> Return(product_dict)]

create_product(db, product) ==
    LET product_dict == [product EXCEPT !.id = Len(db) + 1]
    IN  [db |-> Append(db, product_dict), resp |-> Return(product_dict)]

list_orders(db) == [db |-> db, resp |-> Return(ListBody(db))]

\* Variant: the order id is taken from the length of users_db.
create_order_users_len(db, order) ==
    LET order_dict == [order EXCEPT !.id = Len(users_db) + 1]
    IN  [db |-> Append(db, order_dict), resp |-> Return(order_dict)]

create_order(db, order) ==
    LET order_dict == [order EXCEPT !.id = Len(db) + 1]
    IN  [db |-> Append(db, order_dict), resp |-> Return(order_dict)]

get_order(db, order_id) ==
    LET i == FirstMatch(db, order_id)
    IN  IF i # 0
        THEN [db |-> db, resp |-> Return(db[i])]
        ELSE [db |-> db, resp |-> HTTPException(404, "Order not found")]

\* A direct Python call list_users(*args), as main_test.py makes it: the
\* function is declared with no parameter, so binding any positional
\* argument raises TypeError before the body runs.
call_list_users(db, args) ==
    IF Len(args) = 0
    THEN list_users(db).resp
    ELSE [raised |-> "TypeError", status_code |-> None, body |-> NoBody]

\* The stores main_test.py passes to list_users: two users, [], and None.
PyList(value) == [is_none |-> FALSE, value |-> value]

PyNone == [is_none |-> TRUE, value |-> <<>>]

TestStores ==
    { PyList(<<[id |-> 1, name |-> "Alice"], [id |-> 2, name |-> "Bob"]>>),
      PyList(<<>>),
      PyNone }

\* The route table the @app decorators register: method and path template.
Routes ==
    { <<"GET", "/health">>,
      <<"GET", "/users">>, <<"GET", "/users/{user_id}">>, <<"POST", "/users">>,
      <<"PUT", "/users/{user_id}">>, <<"DELETE", "/users/{user_id}">>,
      <<"GET", "/products">>, <<"GET", "/products/{product_id}">>,
      <<"POST", "/products">>,
      <<"GET", "/orders">>, <<"POST", "/orders">>, <<"GET", "/orders/{order_id}">> }

\* The by-id path of each repository, under which update (PUT) and delete
\* (DELETE) are asked for.
ItemPath ==
    [users |-> "/users/{user_id}", products |-> "/products/{product_id}",
     orders |-> "/orders/{order_id}"]

\* A request whose path is registered but not with its method reaches no
\* handler; the framework answers 405.
method_not_allowed == HTTPException(405, "Method Not Allowed")

(* ------------------------------ state --------------------------------- *)
\* users_db, products_db, orders_db: the three module-level lists.
\* last: the most recent call, its arguments and its response.
\* assigned[r]: the ids create has returned on repository r, oldest first.
\* had_delete[r]: whether a delete has succeeded on repository r.
\* inflight[t]: the call worker thread t is in the middle of, if any.

\* The worker threads that run the handlers declared with a plain `def`.
Threads == 1..MaxInflight

Idle == [op |-> "idle"]

Busy == {t \in Threads : inflight[t] # Idle}

\* Number of create calls made so far.
Creates == Len(assigned["users"]) + Len(assigned["products"]) + Len(assigned["orders"])

\* The arguments of a call: the path id (None when the route has none) and
\* the request body (NoBody when the route takes none).
Args(the_id, body) == [id |-> the_id, body |-> body]

Done(op, args, resp) == [op |-> op, args |-> args, resp |-> resp]

Init ==
    /\ users_db = <<>>
    /\ products_db = <<>>
    /\ orders_db = <<>>
    /\ last = Done("start", Args(None, NoBody), Return(NoBody))
    /\ assigned = [r \in Repos |-> <<>>]
    /\ had_delete = [r \in Repos |-> FALSE]
    /\ inflight = [t \in Threads |-> Idle]

HealthCheck ==
    /\ last' = Done("health_check", Args(None, NoBody), health_check)
    /\ UNCHANGED <<inflight, users_db, products_db, orders_db, assigned, had_delete>>

ListUsers ==
    LET r == list_users(users_db)
    IN  /\ users_db' = r.db
        /\ last' = Done("list_users", Args(None, NoBody), r.resp)
        /\ UNCHANGED <<inflight, products_db, orders_db, assigned, had_delete>>

GetUser ==
    \E user_id \in Ids :
        LET r == get_user(users_db, user_id)
        IN  /\ users_db' = r.db
            /\ last' = Done("get_user", Args(user_id, NoBody), r.resp)
            /\ UNCHANGED <<inflight, products_db, orders_db, assigned, had_delete>>

CreateUser ==
    /\ Creates < MaxCreates
    /\ \E user \in User :
        LET r == create_user(users_db, user)
        IN  /\ users_db' = r.db
            /\ last' = Done("create_user", Args(None, user), r.resp)
            /\ assigned' = [assigned EXCEPT !["users"] = Append(@, r.resp.body.id)]
            /\ UNCHANGED <<inflight, products_db, orders_db, had_delete>>

UpdateUser ==
    \E user_id \in Ids, user \in User :
        LET r == update_user(users_db, user_id, user)
        IN  /\ users_db' = r.db
            /\ last' = Done("update_user", Args(user_id, user), r.resp)
            /\ UNCHANGED <<inflight, products_db, orders_db, assigned, had_delete>>

DeleteUser ==
    \E user_id \in Ids :
        LET r == delete_user(users_db, user_id)
        IN  /\ users_db' = r.db
            /\ last' = Done("delete_user", Args(user_id, NoBody), r.resp)
            /\ had_delete' = [had_delete EXCEPT
                                !["users"] = @ \/ r.resp.raised = "none"]
            /\ UNCHANGED <<inflight, products_db, orders_db, assigned>>

ListProducts ==
    LET r == list_products(products_db)
    IN  /\ products_db' = r.db
        /\ last' = Done("list_products", Args(None, NoBody), r.resp)
        /\ UNCHANGED <<inflight, users_db, orders_db, assigned, had_delete>>

GetProduct ==
    \E product_id \in Ids :
        LET r == get_product(products_db, product_id)
        IN  /\ products_db' = r.db
            /\ last' = Done("get_product", Args(product_id, NoBody), r.resp)
            /\ UNCHANGED <<inflight, users_db, orders_db, assigned, had_delete>>

CreateProduct ==
    /\ Creates < MaxCreates
    /\ \E product \in Product :
        LET r == create_product(products_db, product)
        IN  /\ products_db' = r.db
            /\ last' = Done("create_product", Args(None, product), r.resp)
            /\ assigned' = [assigned EXCEPT !["products"] = Append(@, r.resp.body.id)]
            /\ UNCHANGED <<inflight, users_db, orders_db, had_delete>>

ListOrders ==
    LET r == list_orders(orders_db)
    IN  /\ orders_db' = r.db
        /\ last' = Done("list_orders", Args(None, NoBody), r.resp)
        /\ UNCHANGED <<inflight, users_db, products_db, assigned, had_delete>>

CreateOrder ==
    /\ Creates < MaxCreates
    /\ \E order \in Order :
        LET r == create_order(orders_db, order)
        IN  /\ orders_db' = r.db
            /\ last' = Done("create_order", Args(None, order), r.resp)
            /\ assigned' = [assigned EXCEPT !["orders"] = Append(@, r.resp.body.id)]
            /\ UNCHANGED <<inflight, users_db, products_db, had_delete>>

GetOrder ==
    \E order_id \in Ids :
        LET r == get_order(orders_db, order_id)
        IN  /\ orders_db' = r.db
            /\ last' = Done("get_order", Args(order_id, NoBody), r.resp)
            /\ UNCHANGED <<inflight, users_db, products_db, assigned, had_delete>>

\* PUT or DELETE on a by-id path for which no handler is registered.
NoRoute ==
    \E method \in {"PUT", "DELETE"}, r \in Repos, the_id \in Ids :
        /\ <<method, ItemPath[r]>> \notin Routes
        /\ last' = Done("no_route", Args(the_id, [method |-> method, repo |-> r]), method_not_allowed)
        /\ UNCHANGED <<inflight, users_db, products_db, orders_db, assigned, had_delete>>

\* main_test.py, TestListUsers: list_users(users_db) with a local store.
TestListUsers ==
    \E store \in TestStores :
        /\ last' = Done("test_list_users", Args(None, store), call_list_users(users_db, <<store>>))
        /\ UNCHANGED <<inflight, users_db, products_db, orders_db, assigned, had_delete>>

Next ==
    \/ HealthCheck
    \/ ListUsers
    \/ GetUser
    \/ CreateUser
    \/ UpdateUser
    \/ DeleteUser
    \/ ListProducts
    \/ GetProduct
    \/ CreateProduct
    \/ ListOrders
    \/ CreateOrder
    \/ GetOrder
    \/ TestListUsers

Spec == Init /\ [][Next]_vars

\* Overlapping requests.  create_user and create_product are plain `def`
\* handlers, which the framework runs on worker threads: a thread can be
\* preempted between the statement that reads len(db) into the new dict
\* and the statement that appends the dict.  create_order is `async def`
\* with no await in its body: it runs on the event loop from its first
\* statement to its return, so CreateOrder stays one step.

\* Thread t runs create_user up to (not including) the append: the dict is
\* built and its id set from the length of users_db as it is now.
BeginCreateUser ==
    /\ Creates + Cardinality(Busy) < MaxCreates
    /\ \E t \in Threads \ Busy, user \in User :
          /\ inflight' = [inflight EXCEPT ![t] =
                [op |-> "create_user", args |-> Args(None, user),
                 local |-> create_user(users_db, user).resp.body]]
          /\ UNCHANGED <<users_db, products_db, orders_db, last, assigned, had_delete>>

\* Thread t resumes: users_db.append(user_dict); return user_dict.
FinishCreateUser ==
    \E t \in Busy :
        /\ inflight[t].op = "create_user"
        /\ users_db' = Append(users_db, inflight[t].local)
        /\ last' = Done("create_user", inflight[t].args, Return(inflight[t].local))
        /\ assigned' = [assigned EXCEPT !["users"] = Append(@, inflight[t].local.id)]
        /\ inflight' = [inflight EXCEPT ![t] = Idle]
        /\ UNCHANGED <<products_db, orders_db, had_delete>>

BeginCreateProduct ==
    /\ Creates + Cardinality(Busy) < MaxCreates
    /\ \E t \in Threads \ Busy, product \in Product :
          /\ inflight' = [inflight EXCEPT ![t] =
                [op |-> "create_product", args |-> Args(None, product),
                 local |-> create_product(products_db, product).resp.body]]
          /\ UNCHANGED <<users_db, products_db, orders_db, last, assigned, had_delete>>

FinishCreateProduct ==
    \E t \in Busy :
        /\ inflight[t].op = "create_product"
        /\ products_db' = Append(products_db, inflight[t].local)
        /\ last' = Done("create_product", inflight[t].args, Return(inflight[t].local))
        /\ assigned' = [assigned EXCEPT !["products"] = Append(@, inflight[t].local.id)]
        /\ inflight' = [inflight EXCEPT ![t] = Idle]
        /\ UNCHANGED <<users_db, orders_db, had_delete>>

\* An order is created on the event loop while worker threads are busy.
CreateOrderOnLoop ==
    /\ Creates + Cardinality(Busy) < MaxCreates
    /\ CreateOrder

NextThreads ==
    \/ BeginCreateUser
    \/ FinishCreateUser
    \/ BeginCreateProduct
    \/ FinishCreateProduct
    \/ CreateOrderOnLoop

SpecThreads == Init /\ [][NextThreads]_vars

\* The handlers, and the requests that reach no handler.
NextRequests ==
    \/ Next
    \/ NoRoute

SpecRequests == Init /\ [][NextRequests]_vars

(* ============================== claims ================================ *)

Succeeded(resp) == resp.raised = "none" /\ resp.status_code = 200

NotFound(resp) == resp.raised = "HTTPException" /\ resp.status_code = 404

HasId(db, the_id) == \E i \in 1..Len(db) : db[i].id = the_id

UniqueIds(db) == \A i, j \in 1..Len(db) : i # j => db[i].id # db[j].id

NoRepeat(ids) == \A i, j \in 1..Len(ids) : i # j => ids[i] # ids[j]

\* C1: in every reachable state no two records of the same repository
\* (users_db, products_db, orders_db) have the same id.
C1_UniqueIds ==
    /\ UniqueIds(users_db)
    /\ UniqueIds(products_db)
    /\ UniqueIds(orders_db)

\* C2: right after create returned record r, get(r.id) on the same
\* repository returns a record equal to r.
C2_CreateThenGet ==
    /\ last.op = "create_user" =>
          LET g == get_user(users_db, last.resp.body.id).resp
          IN  Succeeded(g) /\ g.body = last.resp.body
    /\ last.op = "create_product" =>
          LET g == get_product(products_db, last.resp.body.id).resp
          IN  Succeeded(g) /\ g.body = last.resp.body
    /\ last.op = "create_order" =>
          LET g == get_order(orders_db, last.resp.body.id).resp
          IN  Succeeded(g) /\ g.body = last.resp.body

\* C3: right after a successful delete(id) on the users repository, get(id)
\* fails with NotFound (404): no record with that id remains.
C3_DeleteThenGet ==
    (last.op = "delete_user" /\ Succeeded(last.resp)) =>
        /\ NotFound(get_user(users_db, last.args.id).resp)
        /\ ~HasId(users_db, last.args.id)

\* C4: an id that create has assigned in a repository is never assigned
\* again by a later create on that repository, deletions included.
C4_IdsNeverReused == \A r \in Repos : NoRepeat(assigned[r])

\* C5: right after a successful update(id, fields) on the users repository,
\* get(id) returns a record whose id is id and whose non-id fields are
\* those of fields, whatever id fields itself carries.
C5_UpdateThenGet ==
    (last.op = "update_user" /\ Succeeded(last.resp)) =>
        LET g == get_user(users_db, last.args.id).resp
        IN  /\ Succeeded(g)
            /\ g.body.id = last.args.id
            /\ g.body.name = last.args.body.name
            /\ g.body.email = last.args.body.email

\* C5 witness: an update succeeded with a body whose id differs from the
\* path id, in a store where two records carry that id.
C5_Witness ==
    /\ last.op = "update_user"
    /\ Succeeded(last.resp)
    /\ last.args.body.id # last.args.id
    /\ last.args.body.id # None
    /\ Cardinality({i \in 1..Len(users_db) : users_db[i].id = last.args.id}) = 2

\* C6: get, update and delete called with an id that no record of the
\* repository carries fail with NotFound (404), and on that failure all
\* three repositories are left exactly as they were.
C6_MissingIdFails ==
    [][ /\ ( /\ last'.op \in {"get_user", "update_user", "delete_user"}
             /\ ~HasId(users_db, last'.args.id) )
           => (NotFound(last'.resp) /\ UNCHANGED dbs)
        /\ (last'.op = "get_product" /\ ~HasId(products_db, last'.args.id))
           => (NotFound(last'.resp) /\ UNCHANGED dbs)
        /\ (last'.op = "get_order" /\ ~HasId(orders_db, last'.args.id))
           => (NotFound(last'.resp) /\ UNCHANGED dbs)
      ]_vars

\* C6 witness: a delete or an update has failed with NotFound on a users
\* repository that holds at least two records.
C6_Witness ==
    /\ last.op \in {"delete_user", "update_user"}
    /\ NotFound(last.resp)
    /\ Len(users_db) >= 2
    /\ ~HasId(users_db, last.args.id)

\* C7: on a repository on which no delete has happened, the k-th create
\* returned id k, so the ids returned are strictly increasing and distinct.
C7_SequentialIds ==
    \A r \in Repos :
        ~had_delete[r] => \A k \in 1..Len(assigned[r]) : assigned[r][k] = k

\* C7 witness: three creates and then a successful update, with no delete,
\* on the users repository.
C7_Witness ==
    /\ ~had_delete["users"]
    /\ Len(assigned["users"]) >= 3
    /\ last.op = "update_user"
    /\ Succeeded(last.resp)

\* s without its i-th element.
Without(s, i) == [k \in 1..(Len(s) - 1) |-> IF k < i THEN s[k] ELSE s[k + 1]]

\* What list() answers now on each repository.
ListedUsers == list_users(users_db).resp

ListedProducts == list_products(products_db).resp

ListedOrders == list_orders(orders_db).resp

\* list() succeeds, answers the records now stored, and answers the empty
\* sequence on a repository on which no create has happened.
ListNow ==
    /\ Succeeded(ListedUsers) /\ ListedUsers.body.items = users_db
    /\ Succeeded(ListedProducts) /\ ListedProducts.body.items = products_db
    /\ Succeeded(ListedOrders) /\ ListedOrders.body.items = orders_db
    /\ last.op = "list_users" => last.resp = ListedUsers
    /\ last.op = "list_products" => last.resp = ListedProducts
    /\ last.op = "list_orders" => last.resp = ListedOrders
    /\ assigned["users"] = <<>> => ListedUsers.body.items = <<>>
    /\ assigned["products"] = <<>> => ListedProducts.body.items = <<>>
    /\ assigned["orders"] = <<>> => ListedOrders.body.items = <<>>

\* Insertion order, step by step: a create puts its record last, an update
\* puts its record in the place of the one it replaced, a delete takes one
\* record out, and every other call leaves what list() answers as it was.
ListStep ==
    /\ CASE last'.op = "create_user" ->
                ListedUsers'.body.items = Append(ListedUsers.body.items, last'.resp.body)
         [] last'.op = "update_user" /\ Succeeded(last'.resp) ->
                \E i \in 1..Len(ListedUsers.body.items) :
                    /\ ListedUsers.body.items[i].id = last'.args.id
                    /\ ListedUsers'.body.items = [ListedUsers.body.items EXCEPT ![i] = last'.resp.body]
         [] last'.op = "delete_user" /\ Succeeded(last'.resp) ->
                \E i \in 1..Len(ListedUsers.body.items) :
                    ListedUsers'.body.items = Without(ListedUsers.body.items, i)
         [] OTHER -> ListedUsers'.body.items = ListedUsers.body.items
    /\ IF last'.op = "create_product"
       THEN ListedProducts'.body.items = Append(ListedProducts.body.items, last'.resp.body)
       ELSE ListedProducts'.body.items = ListedProducts.body.items
    /\ IF last'.op = "create_order"
       THEN ListedOrders'.body.items = Append(ListedOrders.body.items, last'.resp.body)
       ELSE ListedOrders'.body.items = ListedOrders.body.items

C9_NullStoreListsEmpty ==
    (last.op = "test_list_users" /\ last.args.body.is_none) =>
        (Succeeded(last.resp) /\ last.resp.body.items = <<>>)

\* C10: the health check succeeds in every state, always returns exactly
\* {"status": "ok"}, and leaves the three repositories unchanged.
C10_HealthCheck ==
    /\ [](ENABLED HealthCheck)
    /\ [][ last'.op = "health_check" =>
             /\ last'.resp = [raised |-> "none", status_code |-> 200,
                              body |-> [status |-> "ok"]]
             /\ UNCHANGED dbs ]_vars

\* C10 witness: the health check has answered while all three repositories
\* hold records.
C10_Witness ==
    /\ last.op = "health_check"
    /\ users_db # <<>>
    /\ products_db # <<>>
    /\ orders_db # <<>>

UserOps == {"list_users", "get_user", "create_user", "update_user", "delete_user"}

ProductOps == {"list_products", "get_product", "create_product"}

OrderOps == {"list_orders", "get_order", "create_order"}

\* C11: every operation on one repository leaves the other two unchanged,
\* and the id create assigns is the record count of its own repository
\* plus one, whatever the other two hold.
C11_Independent ==
    [][ /\ last'.op \in UserOps => UNCHANGED <<products_db, orders_db>>
        /\ last'.op \in ProductOps => UNCHANGED <<users_db, orders_db>>
        /\ last'.op \in OrderOps => UNCHANGED <<users_db, products_db>>
        /\ last'.op = "create_user" => last'.resp.body.id = Len(users_db) + 1
        /\ last'.op = "create_product" => last'.resp.body.id = Len(products_db) + 1
        /\ last'.op = "create_order" => last'.resp.body.id = Len(orders_db) + 1
      ]_vars

\* C11 witness: the first order has been created, with id 1, while the
\* users repository holds two records.
C11_Witness ==
    /\ last.op = "create_order"
    /\ last.resp.body.id = 1
    /\ Len(users_db) = 2
    /\ Len(orders_db) = 1

\* The records of repository r.
RepoDb(r) ==
    CASE r = "users" -> users_db
      [] r = "products" -> products_db
      [] r = "orders" -> orders_db

\* C12: each of users, products and orders offers all five operations, so
\* update(id, fields) and delete(id) on an existing product or order id
\* succeed as they do on users.
C12_AllFiveOperations ==
    (last.op = "no_route" /\ HasId(RepoDb(last.args.body.repo), last.args.id)) =>
        Succeeded(last.resp)

\* The NotFound error each repository reports for a missing id (every get
\* on an empty store fails).
MissingUser(the_id) == get_user(<<>>, the_id).resp

MissingProduct(the_id) == get_product(<<>>, the_id).resp

MissingOrder(the_id) == get_order(<<>>, the_id).resp

\* The error value tells the entity kind: no two kinds report the same
\* error for the same id.
ErrorNamesKind ==
    /\ (last.op \in {"get_user", "update_user", "delete_user"} /\ NotFound(last.resp)) =>
            /\ last.resp # MissingProduct(last.args.id)
            /\ last.resp # MissingOrder(last.args.id)
    /\ (last.op = "get_product" /\ NotFound(last.resp)) =>
            /\ last.resp # MissingUser(last.args.id)
            /\ last.resp # MissingOrder(last.args.id)
    /\ (last.op = "get_order" /\ NotFound(last.resp)) =>
            /\ last.resp # MissingUser(last.args.id)
            /\ last.resp # MissingProduct(last.args.id)

\* The error value tells the missing id: a different missing id would have
\* been reported with a different error.
ErrorNamesId ==
    /\ (last.op \in {"get_user", "update_user", "delete_user"} /\ NotFound(last.resp)) =>
            \A j \in Ids \ {last.args.id} : last.resp # MissingUser(j)
    /\ (last.op = "get_product" /\ NotFound(last.resp)) =>
            \A j \in Ids \ {last.args.id} : last.resp # MissingProduct(j)
    /\ (last.op = "get_order" /\ NotFound(last.resp)) =>
            \A j \in Ids \ {last.args.id} : last.resp # MissingOrder(j)

\* C13: every NotFound failure of get, update or delete carries both the
\* entity kind and the missing id, so the error value identifies which id
\* of which entity kind was not found.
C13_NotFoundNamesKindAndId == ErrorNamesKind /\ ErrorNamesId

\* rec has the fields of fields, with the same values except maybe for id.
SameOtherFields(rec, fields) ==
    /\ DOMAIN rec = DOMAIN fields
    /\ \A f \in DOMAIN fields \ {"id"} : rec[f] = fields[f]

\* What create(fields) answering resp does to a repository: db before,
\* db_after afterwards.
CreateEffect(db, db_after, fields, resp) ==
    /\ Succeeded(resp)
    /\ resp.body.id = Len(db) + 1
    /\ SameOtherFields(resp.body, fields)
    /\ Len(db_after) = Len(db) + 1
    /\ db_after[Len(db) + 1] = resp.body
    /\ \A k \in 1..Len(db) : db_after[k] = db[k]

\* C14: create(fields) on a repository of n records stores and returns a
\* record with id n+1 (whatever id fields carries) and the other fields of
\* fields, as the last element; the length becomes n+1 and the n records
\* already there keep their values and positions.
C14_Create ==
    [][ /\ last'.op = "create_user" =>
               CreateEffect(users_db, users_db', last'.args.body, last'.resp)
        /\ last'.op = "create_product" =>
               CreateEffect(products_db, products_db', last'.args.body, last'.resp)
        /\ last'.op = "create_order" =>
               CreateEffect(orders_db, orders_db', last'.args.body, last'.resp)
      ]_vars

\* C14 witness: a user sent with id 3 has been stored as the second record
\* with id 2.
C14_Witness ==
    /\ last.op = "create_user"
    /\ last.args.body.id = 3
    /\ last.resp.body.id = 2
    /\ Len(users_db) = 2
    /\ users_db[2] = last.resp.body

\* What a successful update(the_id, fields) answering resp does to a
\* repository: db before, db_after afterwards.
UpdateEffect(db, db_after, the_id, fields, resp) ==
    /\ Len(db_after) = Len(db)
    /\ \A k \in 1..Len(db) : db_after[k].id = db[k].id
    /\ \E i \in 1..Len(db) :
          /\ db[i].id = the_id
          /\ db_after[i].id = the_id
          /\ SameOtherFields(db_after[i], fields)
          /\ resp.body = db_after[i]
          /\ \A k \in 1..Len(db) \ {i} : db_after[k] = db[k]

\* C15: a successful update(id, fields) replaces exactly one record in
\* place: the length and the id at every position are unchanged, the
\* matched record becomes fields with its id forced to id, and every other
\* record is unchanged.
C15_UpdateInPlace ==
    [][ (last'.op = "update_user" /\ Succeeded(last'.resp)) =>
            UpdateEffect(users_db, users_db', last'.args.id, last'.args.body, last'.resp)
      ]_vars

\* C15 witness: an update has succeeded on a store where a later record
\* carries the same id and still differs from the updated one.
C15_Witness ==
    /\ last.op = "update_user"
    /\ Succeeded(last.resp)
    /\ \E i, j \in 1..Len(users_db) :
          /\ i < j
          /\ users_db[i] = last.resp.body
          /\ users_db[j].id = last.args.id
          /\ users_db[j] # last.resp.body

\* What a successful delete(the_id) does to a repository: db before,
\* db_after afterwards.
DeleteEffect(db, db_after, the_id) ==
    /\ Len(db_after) = Len(db) - 1
    /\ \E i \in 1..Len(db) :
          /\ db[i].id = the_id
          /\ \A k \in 1..(i - 1) : db_after[k] = db[k]
          /\ \A k \in i..(Len(db) - 1) : db_after[k] = db[k + 1]

\* C16: a successful delete(id) removes exactly one record, the removed
\* record carried the given id, and the remaining records are unchanged
\* and keep their relative order.
C16_DeleteOne ==
    [][ (last'.op = "delete_user" /\ Succeeded(last'.resp)) =>
            /\ DeleteEffect(users_db, users_db', last'.args.id)
            /\ last'.resp.body = [deleted |-> TRUE]
      ]_vars

\* C16 witness: a delete has succeeded and a record carrying the deleted id
\* is still stored.
C16_Witness ==
    /\ last.op = "delete_user"
    /\ Succeeded(last.resp)
    /\ HasId(users_db, last.args.id)

\* The positions of db whose record carries the_id, and the lowest of them.
Positions(db, the_id) == {i \in 1..Len(db) : db[i].id = the_id}

Lowest(db, the_id) ==
    CHOOSE i \in Positions(db, the_id) : \A j \in Positions(db, the_id) : i <= j

\* C17: first match wins, also when several records carry the same id: get
\* returns, update replaces and delete removes the record at the lowest
\* position among those whose id is the argument, and no other record is
\* touched.
C17_FirstMatchWins ==
    [][ /\ (last'.op = "get_user" /\ Succeeded(last'.resp)) =>
              /\ last'.resp.body = users_db[Lowest(users_db, last'.args.id)]
              /\ users_db' = users_db
        /\ (last'.op = "update_user" /\ Succeeded(last'.resp)) =>
              users_db' = [users_db EXCEPT
                              ![Lowest(users_db, last'.args.id)] = last'.resp.body]
        /\ (last'.op = "delete_user" /\ Succeeded(last'.resp)) =>
              users_db' = Without(users_db, Lowest(users_db, last'.args.id))
        /\ (last'.op = "get_product" /\ Succeeded(last'.resp)) =>
              /\ last'.resp.body = products_db[Lowest(products_db, last'.args.id)]
              /\ products_db' = products_db
        /\ (last'.op = "get_order" /\ Succeeded(last'.resp)) =>
              /\ last'.resp.body = orders_db[Lowest(orders_db, last'.args.id)]
              /\ orders_db' = orders_db
      ]_vars

\* C17 witness: get has returned the first of two different records that
\* carry the id asked for.
C17_Witness ==
    /\ last.op = "get_user"
    /\ Succeeded(last.resp)
    /\ Cardinality(Positions(users_db, last.args.id)) = 2
    /\ users_db[1] = last.resp.body
    /\ users_db[2] # last.resp.body

\* C18: no operation interleaves with another on the same repository
\* between reading the store and writing it, so two overlapping create
\* requests on one repository are never given the same id (no delete
\* happens in these runs).
C18_OverlappingCreates == \A r \in Repos : NoRepeat(assigned[r])

\* The record at position k has id k.
IdIsPosition(db) == \A k \in 1..Len(db) : db[k].id = k

\* C19: products and orders have list, get and create only, so in every
\* reachable state the record at position k has id k; hence ids are unique
\* and get(id) succeeds exactly when 1 <= id <= record count.
C19_IdIsPosition ==
    /\ IdIsPosition(products_db) /\ UniqueIds(products_db)
    /\ IdIsPosition(orders_db) /\ UniqueIds(orders_db)
    /\ \A the_id \in Ids :
          /\ Succeeded(get_product(products_db, the_id).resp)
                <=> (1 <= the_id /\ the_id <= Len(products_db))
          /\ Succeeded(get_order(orders_db, the_id).resp)
                <=> (1 <= the_id /\ the_id <= Len(orders_db))
    /\ last.op = "get_product" =>
          (Succeeded(last.resp) <=> last.args.id <= Len(products_db))
    /\ last.op = "get_order" =>
          (Succeeded(last.resp) <=> last.args.id <= Len(orders_db))

\* C19 witness: with two products stored, get(3) has failed.
C19_Witness ==
    /\ last.op = "get_product"
    /\ NotFound(last.resp)
    /\ last.args.id = 3
    /\ Len(products_db) = 2

ReadOps ==
    {"list_users", "get_user", "list_products", "get_product", "list_orders", "get_order"}

\* The answer the read just made would get if it were made again now.
ReadAgain ==
    CASE last.op = "list_users" -> list_users(users_db).resp
      [] last.op = "get_user" -> get_user(users_db, last.args.id).resp
      [] last.op = "list_products" -> list_products(products_db).resp
      [] last.op = "get_product" -> get_product(products_db, last.args.id).resp
      [] last.op = "list_orders" -> list_orders(orders_db).resp
      [] last.op = "get_order" -> get_order(orders_db, last.args.id).resp

\* C20: list and get, whether they succeed or fail with NotFound, leave
\* every repository unchanged, so the same read made again with no
\* mutation in between returns the same result.
C20_ReadsChangeNothing ==
    [][ last'.op \in ReadOps =>
            /\ UNCHANGED dbs
            /\ ReadAgain'.raised = last'.resp.raised
            /\ ReadAgain' = last'.resp
      ]_vars

\* C20 witness: get(2) has succeeded on a users repository of three
\* records.
C20_Witness ==
    /\ last.op = "get_user"
    /\ Succeeded(last.resp)
    /\ last.args.id = 2
    /\ Len(users_db) = 3

====
